---- MODULE Spec2Model ----
(***************************************************************************)
(* Difficulty retargeting and proof-of-work validation of MmpCoin          *)
(* (src/src/pow.cpp) and the consensus parameter tables                    *)
(* (src/src/chainparams.cpp).                                              *)
(*                                                                         *)
(* 256-bit targets are little-endian sequences of 32 bytes, because the      *)
(* model checker's integers are narrower than the program's.  Compact      *)
(* targets (nBits) are kept as the 32-bit number the program stores; the   *)
(* model only draws values below 2^31.  32-bit unsigned heights of the     *)
(* parameter tree are pairs <<high 16 bits, low 16 bits>>.                  *)
(***************************************************************************)
EXTENDS Integers, Sequences, FiniteSets, TLC

NULL == "NULL"

Min(a, b) == IF a < b THEN a ELSE b

Max(a, b) == IF a > b THEN a ELSE b

\* ------------------------------------------------------------------------
\* arith_uint256: 256-bit unsigned arithmetic on byte vectors; byte 1 is the
\* least significant
\* ------------------------------------------------------------------------
WIDTH == 32

Limbs == 1..WIDTH

RECURSIVE Repeat(_, _)
\* n copies of the byte b
Repeat(b, n) == IF n <= 0 THEN <<>> ELSE Append(Repeat(b, n - 1), b)

BnZero == Repeat(0, WIDTH)

BnMax == Repeat(255, WIDTH)

\* the low WIDTH bytes of a byte sequence, padded with zeros
BnTruncate(bytes) == SubSeq(bytes \o BnZero, 1, WIDTH)

\* the three bytes of a word below 2^24, least significant first
WordBytes(n) == <<n % 256, (n \div 256) % 256, (n \div 65536) % 256>>

\* the value of a small non-negative integer (below 2^24) as a 256-bit number
BnFromInt(n) == BnTruncate(WordBytes(n))

BnIsZero(a) == \A i \in Limbs : a[i] = 0

BnLess(a, b) ==
    \E i \in Limbs : /\ a[i] < b[i]
                     /\ \A j \in (i + 1)..WIDTH : a[j] = b[j]

BnGreater(a, b) == BnLess(b, a)

BnLeq(a, b) == ~BnLess(b, a)

RECURSIVE Reverse(_)
Reverse(s) == IF s = <<>> THEN <<>> ELSE Append(Reverse(Tail(s)), Head(s))

\* a sum of WIDTH bytes and a final carry: the bytes, or the saturated value
Saturate(r) == IF r[WIDTH + 1] # 0 THEN BnMax ELSE SubSeq(r, 1, WIDTH)

RECURSIVE MulCarry(_, _, _, _)
\* bytes i..WIDTH of a * k + carry * 256^(i-1), then the carry out
MulCarry(a, k, i, carry) ==
    IF i > WIDTH THEN <<carry>>
    ELSE <<(a[i] * k + carry) % 256>>
             \o MulCarry(a, k, i + 1, (a[i] * k + carry) \div 256)

\* a * k for 0 <= k < 2^22, saturating at 2^256 - 1
BnMulSmall(a, k) == Saturate(MulCarry(a, k, 1, 0))

RECURSIVE AddCarry(_, _, _, _)
AddCarry(a, b, i, carry) ==
    IF i > WIDTH THEN <<carry>>
    ELSE <<(a[i] + b[i] + carry) % 256>>
             \o AddCarry(a, b, i + 1, (a[i] + b[i] + carry) \div 256)

\* a + b, saturating at 2^256 - 1
BnAdd(a, b) == Saturate(AddCarry(a, b, 1, 0))

\* a * 2^(8*n), saturating at 2^256 - 1
BnShiftBytes(a, n) ==
    IF \E i \in Limbs : i + n > WIDTH /\ a[i] # 0 THEN BnMax
    ELSE BnTruncate(Repeat(0, n) \o a)

\* a * b32 for a 32-bit multiplier given as b32 = hi * 2^16 + lo
BnMulU32(a, hi, lo) ==
    IF hi = 0 THEN BnMulSmall(a, lo)
    ELSE BnAdd(BnShiftBytes(BnMulSmall(a, hi), 2), BnMulSmall(a, lo))

RECURSIVE DivRem(_, _, _, _)
\* the quotient bytes i..1 of (rem * 256^i + a mod 256^i) / d, most
\* significant first
DivRem(a, d, i, rem) ==
    IF i < 1 THEN <<>>
    ELSE <<(rem * 256 + a[i]) \div d>>
             \o DivRem(a, d, i - 1, (rem * 256 + a[i]) % d)

\* floor(a / d) for 0 < d < 2^22
BnDivSmall(a, d) == Reverse(DivRem(a, d, WIDTH, 0))

\* number of significant bytes: (bits() + 7) / 8
BnSize(a) ==
    IF BnIsZero(a) THEN 0
    ELSE CHOOSE i \in Limbs : a[i] # 0 /\ \A j \in (i + 1)..WIDTH : a[j] = 0

Byte(a, i) == IF i \in Limbs THEN a[i] ELSE 0

\* arith_uint256::GetCompact of a non-negative value
GetCompact(a) ==
    LET nSize == BnSize(a)
        word  == Byte(a, nSize) * 65536 + Byte(a, nSize - 1) * 256
                     + Byte(a, nSize - 2)
    IN  IF word >= 8388608
        THEN (word \div 256) + (nSize + 1) * 16777216
        ELSE word + nSize * 16777216

CompactSize(nCompact) == nCompact \div 16777216

CompactWord(nCompact) ==
    LET nWord == nCompact % 8388608
        nSize == CompactSize(nCompact)
    IN  IF nSize = 0 THEN 0
        ELSE IF nSize = 1 THEN nWord \div 65536
        ELSE IF nSize = 2 THEN nWord \div 256
        ELSE nWord

\* arith_uint256::SetCompact: the decoded value, truncated to 256 bits
SetCompact(nCompact) ==
    LET nSize == CompactSize(nCompact)
        nWord == CompactWord(nCompact)
    IN  IF nSize <= 3 THEN BnFromInt(nWord)
        ELSE BnTruncate(Repeat(0, Min(nSize - 3, WIDTH)) \o WordBytes(nWord))

\* the fNegative output of SetCompact
CompactNegative(nCompact) ==
    CompactWord(nCompact) # 0 /\ (nCompact \div 8388608) % 2 = 1

\* the fOverflow output of SetCompact
CompactOverflow(nCompact) ==
    LET nSize == CompactSize(nCompact)
        nWord == CompactWord(nCompact)
    IN  nWord # 0 /\ (\/ nSize > 34
                      \/ (nWord > 255 /\ nSize > 33)
                      \/ (nWord > 65535 /\ nSize > 32))

\* ------------------------------------------------------------------------
\* 32-bit unsigned heights (uint32_t) as <<high 16 bits, low 16 bits>>
\* ------------------------------------------------------------------------
U32(n) == <<n \div 65536, n % 65536>>

U32Less(a, b) == a[1] < b[1] \/ (a[1] = b[1] /\ a[2] < b[2])

\* 0xFFFFFFFF, std::numeric_limits<uint32_t>::max()
UINT32_MAX == <<65535, 65535>>

\* ------------------------------------------------------------------------
\* chainparams.cpp: the per-network consensus parameters
\* ------------------------------------------------------------------------
Networks == {"main", "test", "regtest"}

\* 0x00000fffffffffffffffffffffffffffffffffffffffffffffffffffffffffff
powLimit == Repeat(255, 29) \o <<15, 0, 0>>

\* CMainParams::consensus, CTestNetParams::consensus, CRegTestParams::consensus:
\* the fields read by pow.cpp are set alike on the three networks; the fields
\* the constructors do not assign are zero (objects of static storage)
consensus ==
    [ powLimit                               |-> powLimit,
      nPowTargetTimespan                     |-> 20 * 60,
      nPowTargetSpacing                      |-> 60,
      fPowNoRetargeting                      |-> FALSE,
      fPowAllowMinDifficultyBlocks           |-> FALSE,
      fPowAllowDigishieldMinDifficultyBlocks |-> FALSE,
      fDigishieldDifficultyCalculation       |-> FALSE,
      nHeightEffective                       |-> U32(0),
      pLeft                                  |-> NULL,
      pRight                                 |-> NULL ]

\* the DigiShield set taking effect at the fork height
digishieldConsensus_Active ==
    [ consensus EXCEPT !.nHeightEffective = U32(155550),
                       !.fDigishieldDifficultyCalculation = TRUE,
                       !.nPowTargetTimespan = 60 ]

digishieldConsensus ==
    [ consensus EXCEPT !.nHeightEffective = UINT32_MAX,
                       !.fDigishieldDifficultyCalculation = TRUE,
                       !.nPowTargetTimespan = 60 ]

minDifficultyConsensus ==
    [ digishieldConsensus EXCEPT
          !.nHeightEffective = UINT32_MAX,
          !.fPowAllowDigishieldMinDifficultyBlocks = TRUE,
          !.fPowAllowMinDifficultyBlocks = TRUE ]

auxpowConsensus ==
    [ digishieldConsensus EXCEPT !.nHeightEffective = UINT32_MAX ]

\* the binary search tree assembled by the constructors; pConsensusRoot
pConsensusRoot == "digishieldConsensus"

ConsensusNodes ==
    [ n \in {"consensus", "digishieldConsensus", "auxpowConsensus"} |->
        IF n = "consensus" THEN consensus
        ELSE IF n = "auxpowConsensus" THEN auxpowConsensus
        ELSE [ digishieldConsensus EXCEPT !.pLeft = "consensus",
                                          !.pRight = "auxpowConsensus" ] ]

\* genesis.nTime / genesis.nBits of CreateGenesisBlock(1732866195, ...)
GenesisTime == 1732866195

\* 0x1e0ffff0
GenesisBitsMain == 504365040

\* 0x207fffff
GenesisBitsRegtest == 545259519

GenesisBlock(network) ==
    [ nTime |-> GenesisTime,
      nBits |-> IF network = "regtest" THEN GenesisBitsRegtest
                ELSE GenesisBitsMain ]

RECURSIVE GetConsensus_Unchecked(_, _, _)
\* the lookup taking the right subtree's answer without testing it
GetConsensus_Unchecked(nodes, this, nTargetHeight) ==
    LET self == nodes[this]
    IN  IF U32Less(nTargetHeight, self.nHeightEffective) /\ self.pLeft # NULL
        THEN GetConsensus_Unchecked(nodes, self.pLeft, nTargetHeight)
        ELSE IF U32Less(self.nHeightEffective, nTargetHeight)
                    /\ self.pRight # NULL
        THEN GetConsensus_Unchecked(nodes, self.pRight, nTargetHeight)
        ELSE this

\* Consensus::Params::GetConsensus, on the nodes of a tree, from node `this`
RECURSIVE GetConsensus(_, _, _)
GetConsensus(nodes, this, nTargetHeight) ==
    LET self == nodes[this]
    IN  IF U32Less(nTargetHeight, self.nHeightEffective) /\ self.pLeft # NULL
        THEN GetConsensus(nodes, self.pLeft, nTargetHeight)
        ELSE IF U32Less(self.nHeightEffective, nTargetHeight)
                    /\ self.pRight # NULL
        THEN LET pCandidate == GetConsensus(nodes, self.pRight, nTargetHeight)
             IN  IF ~U32Less(nTargetHeight, nodes[pCandidate].nHeightEffective)
                 THEN pCandidate
                 ELSE this
        ELSE this

\* ------------------------------------------------------------------------
\* chainparams.cpp: the parameter objects and their selection
\* ------------------------------------------------------------------------
\* Consensus::DeploymentPos, the index of vDeployments
DeploymentPos ==
    {"DEPLOYMENT_TESTDUMMY", "DEPLOYMENT_CSV", "DEPLOYMENT_SEGWIT"}

\* a parameter object when its constructor returns: no constructor assigns
\* vDeployments, which keeps the zeros of static storage
ChainParamsObject(strNetworkID) ==
    [ strNetworkID |-> strNetworkID,
      vDeployments |-> [d \in DeploymentPos |->
                           [nStartTime |-> 0, nTimeout |-> 0]] ]

\* static CMainParams mainParams, CTestNetParams testNetParams,
\* CRegTestParams regTestParams
StaticChainParams ==
    [ mainParams    |-> ChainParamsObject("main"),
      testNetParams |-> ChainParamsObject("test"),
      regTestParams |-> ChainParamsObject("regtest") ]

\* the std::runtime_error thrown for an unknown chain
Thrown == "std::runtime_error"

\* the lookup falling back to mainParams for an unknown chain
Params_Default(chain) ==
    IF chain = "main" THEN "mainParams"
    ELSE IF chain = "test" THEN "testNetParams"
    ELSE IF chain = "regtest" THEN "regTestParams"
    ELSE "mainParams"

\* CChainParams& Params(const std::string& chain)
Params(chain) ==
    IF chain = "main" THEN "mainParams"
    ELSE IF chain = "test" THEN "testNetParams"
    ELSE IF chain = "regtest" THEN "regTestParams"
    ELSE Thrown

\* SelectBaseParams(network) throws or returns: it knows the three networks;
\* for any other name it may throw before Params(network) is reached
SelectBaseParamsThrows(chain) ==
    IF chain \in Networks THEN {FALSE} ELSE {TRUE, FALSE}

\* CRegTestParams::UpdateBIP9Parameters on a parameter object
UpdateBIP9Parameters(object, d, nStartTime, nTimeout) ==
    [ object EXCEPT !.vDeployments[d] =
          [nStartTime |-> nStartTime, nTimeout |-> nTimeout] ]

\* ------------------------------------------------------------------------
\* The block index as pow.cpp reads it: `chain` holds the most recent blocks,
\* oldest first, the tip last; `height` is the tip's nHeight.
\* ------------------------------------------------------------------------
\* the k-th ancestor of the tip (k = 0 is the tip itself)
Ancestor(chain, k) == chain[Len(chain) - k]

\* pprev of the k-th ancestor is not NULL
HasPrev(height, k) == height - k > 0

\* int64_t division, truncating toward zero
TruncDiv(a, b) == IF a >= 0 THEN a \div b ELSE -((-a) \div b)

\* ------------------------------------------------------------------------
\* pow.cpp: GetNextWorkRequiredNewAlgo
\* ------------------------------------------------------------------------
\* the freeze starting one block late
InPostForkFreeze_Late(height) == height > 155550 /\ height < 155650

\* if (pindexLast->nHeight >= 155550 && pindexLast->nHeight < 155650)
InPostForkFreeze(height) == height >= 155550 /\ height < 155650

\* the clamp without its lower end
ClampSpacing_NoFloor(spacing, nTargetSpacing) ==
    Min(spacing, nTargetSpacing * 100)

\* std::max(.., MIN_BLOCK_TIME) then std::min(.., MAX_BLOCK_TIME)
ClampSpacing(spacing, nTargetSpacing) ==
    Min(Max(spacing, 1), nTargetSpacing * 100)

\* spacing of the loop's i-th round: pindex->GetBlockTime() - pindex->pprev->GetBlockTime()
Spacing(chain, i, nTargetSpacing) ==
    ClampSpacing(Ancestor(chain, i).nTime - Ancestor(chain, i + 1).nTime,
                 nTargetSpacing)

ANALYSIS_WINDOW == 8

\* recentSpacings.size() after the loop over at most ANALYSIS_WINDOW blocks
SpacingCount(height) == Min(ANALYSIS_WINDOW, height)

\* the spacings the loop pushes, most recent first
LoopSpacings(chain, height, nTargetSpacing) ==
    [i \in 1..SpacingCount(height) |-> Spacing(chain, i - 1, nTargetSpacing)]

\* recentSpacings at the averaging step: if the loop pushed nothing,
\* nActualSpacing is pushed
RecentSpacings(chain, height, nTargetSpacing) ==
    IF SpacingCount(height) = 0
    THEN <<Spacing(chain, 0, nTargetSpacing)>>
    ELSE LoopSpacings(chain, height, nTargetSpacing)

RECURSIVE SumFirst(_, _)
SumFirst(s, n) == IF n = 0 THEN 0 ELSE s[n] + SumFirst(s, n - 1)

\* averageSpacing = totalSpacing / recentSpacings.size()
AverageSpacing(recentSpacings) ==
    SumFirst(recentSpacings, Len(recentSpacings)) \div Len(recentSpacings)

\* shortTermAverage over the last 3 blocks
ShortTermAverage(recentSpacings) ==
    LET shortTermCount == Min(3, Len(recentSpacings))
    IN  SumFirst(recentSpacings, shortTermCount) \div shortTermCount

\* recentChange = (double)nBits / (double)pprev->nBits; > 2.0 or < 0.5
RecentLargeAdjustment(chain, height) ==
    /\ HasPrev(height, 0) /\ HasPrev(height, 1)
    /\ LET a == Ancestor(chain, 0).nBits
           b == Ancestor(chain, 1).nBits
       IN  a - b > b \/ b - a > a

\* the detection asking for three fast and three slow blocks
PossibleAttack_Three(recentSpacings, nTargetSpacing) ==
    /\ Len(recentSpacings) >= 4
    /\ LET window == 1..Min(6, Len(recentSpacings))
           fastBlocks == Cardinality({i \in window :
                             recentSpacings[i] < nTargetSpacing \div 3})
           slowBlocks == Cardinality({i \in window :
                             recentSpacings[i] > nTargetSpacing * 3})
       IN  fastBlocks >= 3 /\ slowBlocks >= 3

\* fast-slow alternation among the first min(6, size) spacings
PossibleAttack(recentSpacings, nTargetSpacing) ==
    /\ Len(recentSpacings) >= 4
    /\ LET window == 1..Min(6, Len(recentSpacings))
           fastBlocks == Cardinality({i \in window :
                             recentSpacings[i] < nTargetSpacing \div 3})
           slowBlocks == Cardinality({i \in window :
                             recentSpacings[i] > nTargetSpacing * 3})
       IN  fastBlocks >= 2 /\ slowBlocks >= 2

\* maxIncrease and maxDecrease of the selected band
AdjustmentLimits(bPossibleAttack, bRecentLargeAdjustment, nTimeSinceLastBlock, nTargetSpacing) ==
    IF bPossibleAttack THEN [maxIncrease |-> 25, maxDecrease |-> 25]
    ELSE IF bRecentLargeAdjustment THEN [maxIncrease |-> 40, maxDecrease |-> 40]
    ELSE IF nTimeSinceLastBlock > 2 * nTargetSpacing
    THEN [maxIncrease |-> 150, maxDecrease |-> 100]
    ELSE [maxIncrease |-> 75, maxDecrease |-> 75]

\* bnPrevious * (100 - maxIncrease) / 100: the int factor converts to uint32_t
BnMaxIncrease(bnPrevious, maxIncrease) ==
    LET factor == 100 - maxIncrease
    IN  IF factor >= 0
        THEN BnDivSmall(BnMulSmall(bnPrevious, factor), 100)
        ELSE BnDivSmall(BnMulU32(bnPrevious, 65535, 65536 + factor), 100)

\* bnPrevious * (100 + maxDecrease) / 100
BnMaxDecrease(bnPrevious, maxDecrease) ==
    BnDivSmall(BnMulSmall(bnPrevious, 100 + maxDecrease), 100)

\* abs(((double)nCompact / (double)nBits - 1.0) * 100.0) < 1.0
ChangeBelowOnePercent(nCompact, nBits) ==
    /\ nBits # 0
    /\ LET diff == IF nCompact >= nBits THEN nCompact - nBits
                   ELSE nBits - nCompact
       IN  diff < (nBits + 99) \div 100

\* targetDeviation < 0.6 || targetDeviation > 1.4
SignificantDeviation(adjustmentSpacing, nTargetSpacing) ==
    \/ adjustmentSpacing * 10 < nTargetSpacing * 6
    \/ adjustmentSpacing * 10 > nTargetSpacing * 14

\* the emergency branch: bnEmergency *= min(delayFactor, 50), capped
EmergencyTarget(nBits, nActualSpacing, nTimeSinceLastBlock, nTargetSpacing, bnPowLimit) ==
    LET delayFactor == Max(TruncDiv(nActualSpacing, nTargetSpacing),
                           TruncDiv(nTimeSinceLastBlock, nTargetSpacing))
        emergencyReduction == Min(delayFactor, 50)
        bnEmergency == BnMulSmall(SetCompact(nBits), emergencyReduction)
    IN  IF BnGreater(bnEmergency, bnPowLimit) THEN bnPowLimit ELSE bnEmergency

\* if (bDeathSpiralRisk || nTimeSinceLastBlock > 30 * nTargetSpacing)
DeathSpiral(nTimeSinceLastBlock, nTargetSpacing) ==
    \/ nTimeSinceLastBlock > 15 * nTargetSpacing
    \/ nTimeSinceLastBlock > 30 * nTargetSpacing

\* if (nActualSpacing > 3 * nTargetSpacing || nTimeSinceLastBlock > 5 * nTargetSpacing)
SevereDelay(nActualSpacing, nTimeSinceLastBlock, nTargetSpacing) ==
    \/ nActualSpacing > 3 * nTargetSpacing
    \/ nTimeSinceLastBlock > 5 * nTargetSpacing

\* the spacing the adjustment uses
AdjustmentSpacing(recentSpacings, bPossibleAttack, bRecentLargeAdjustment) ==
    IF bPossibleAttack \/ bRecentLargeAdjustment
    THEN AverageSpacing(recentSpacings)
    ELSE ShortTermAverage(recentSpacings)

\* bnNew after the multiplication, the limits and the powLimit clamp
CappedTarget(bnPrevious, adjustmentSpacing, limits, nTargetSpacing, bnPowLimit) ==
    LET bnNew == BnDivSmall(BnMulSmall(bnPrevious, adjustmentSpacing),
                            nTargetSpacing)
        bnMaxIncrease == BnMaxIncrease(bnPrevious, limits.maxIncrease)
        bnMaxDecrease == BnMaxDecrease(bnPrevious, limits.maxDecrease)
        bnCapped == IF BnLess(bnNew, bnMaxIncrease) THEN bnMaxIncrease
                    ELSE IF BnGreater(bnNew, bnMaxDecrease) THEN bnMaxDecrease
                    ELSE bnNew
    IN  IF BnGreater(bnCapped, bnPowLimit) THEN bnPowLimit ELSE bnCapped

\* the forced minimum adjustment of 3%
ForcedTarget(bnPrevious, adjustmentSpacing, nTargetSpacing, bnPowLimit) ==
    LET bnNew == IF adjustmentSpacing < nTargetSpacing
                 THEN BnDivSmall(BnMulSmall(bnPrevious, 97), 100)
                 ELSE BnDivSmall(BnMulSmall(bnPrevious, 103), 100)
    IN  IF BnGreater(bnNew, bnPowLimit) THEN bnPowLimit ELSE bnNew

\* bnNew from the chosen spacing on: the multiplication, the limits of the
\* selected band, the powLimit clamp and the forced minimum adjustment
TargetForSpacing(nBits, adjustmentSpacing, bPossibleAttack, bRecentLargeAdjustment, nTimeSinceLastBlock, params) ==
    LET nTargetSpacing == params.nPowTargetSpacing
        bnPrevious == SetCompact(nBits)
        limits == AdjustmentLimits(bPossibleAttack, bRecentLargeAdjustment,
                                   nTimeSinceLastBlock, nTargetSpacing)
        bnNew == CappedTarget(bnPrevious, adjustmentSpacing, limits,
                              nTargetSpacing, params.powLimit)
    IN  IF /\ ~bPossibleAttack
           /\ ~bRecentLargeAdjustment
           /\ ChangeBelowOnePercent(GetCompact(bnNew), nBits)
           /\ SignificantDeviation(adjustmentSpacing, nTargetSpacing)
        THEN ForcedTarget(bnPrevious, adjustmentSpacing, nTargetSpacing,
                          params.powLimit)
        ELSE bnNew

\* the steps after the emergency returns: averages, flags, limits, forced change
AdjustedTarget(chain, height, nTimeSinceLastBlock, params) ==
    LET nTargetSpacing == params.nPowTargetSpacing
        recentSpacings == RecentSpacings(chain, height, nTargetSpacing)
        bRecentLargeAdjustment == RecentLargeAdjustment(chain, height)
        bPossibleAttack == PossibleAttack(recentSpacings, nTargetSpacing)
    IN  TargetForSpacing(Ancestor(chain, 0).nBits,
            AdjustmentSpacing(recentSpacings, bPossibleAttack,
                              bRecentLargeAdjustment),
            bPossibleAttack, bRecentLargeAdjustment, nTimeSinceLastBlock,
            params)

\* GetNextWorkRequiredNewAlgo for a tip that is not NULL; nCurrentTime is the
\* value GetTime() returns during the call
GetNextWorkRequiredNewAlgo(chain, height, nCurrentTime, params) ==
    LET nProofOfWorkLimit == GetCompact(params.powLimit)
        nTargetSpacing == params.nPowTargetSpacing
        nTimeSinceLastBlock == nCurrentTime - Ancestor(chain, 0).nTime
    IN  IF ~HasPrev(height, 0) THEN nProofOfWorkLimit
        ELSE IF InPostForkFreeze(height) THEN nProofOfWorkLimit
        ELSE IF DeathSpiral(nTimeSinceLastBlock, nTargetSpacing)
        THEN GetCompact(params.powLimit)
        ELSE LET nActualSpacing == Spacing(chain, 0, nTargetSpacing)
             IN  IF SevereDelay(nActualSpacing, nTimeSinceLastBlock,
                                nTargetSpacing)
                 THEN GetCompact(EmergencyTarget(Ancestor(chain, 0).nBits,
                                     nActualSpacing, nTimeSinceLastBlock,
                                     nTargetSpacing, params.powLimit))
                 ELSE GetCompact(AdjustedTarget(chain, height,
                                     nTimeSinceLastBlock, params))

\* ------------------------------------------------------------------------
\* pow.cpp: GetNextWorkRequiredOldAlgo and its helpers
\* ------------------------------------------------------------------------
\* Consensus::Params::DifficultyAdjustmentInterval
DifficultyAdjustmentInterval(params) ==
    params.nPowTargetTimespan \div params.nPowTargetSpacing

\* the DigiShield minimum-difficulty exception
AllowDigishieldMinDifficultyForBlock(chain, pblockTime, params) ==
    /\ params.fPowAllowDigishieldMinDifficultyBlocks
    /\ params.fDigishieldDifficultyCalculation
    /\ pblockTime > Ancestor(chain, 0).nTime + params.nPowTargetSpacing * 2

\* the retarget of the legacy path: the timespan clamped to
\* [timespan/4, timespan*4], dampened first under DigiShield
CalculateDogecoinNextWorkRequired(nBits, nLastBlockTime, nFirstBlockTime, params) ==
    LET retargetTimespan == params.nPowTargetTimespan
        nActualTimespan == nLastBlockTime - nFirstBlockTime
        nModulatedTimespan ==
            IF params.fDigishieldDifficultyCalculation
            THEN retargetTimespan
                     + TruncDiv(nActualTimespan - retargetTimespan, 8)
            ELSE nActualTimespan
        nClamped == Min(Max(nModulatedTimespan, retargetTimespan \div 4),
                        retargetTimespan * 4)
        bnNew == BnDivSmall(BnMulSmall(SetCompact(nBits), nClamped),
                            retargetTimespan)
    IN  IF BnGreater(bnNew, params.powLimit)
        THEN GetCompact(params.powLimit)
        ELSE GetCompact(bnNew)

\* the frozen window starting one block late
InLegacyFreeze_Late(height) == height > 145364 /\ height < 145464

\* if (pindexLast->nHeight >= 145364 && pindexLast->nHeight < 145464)
InLegacyFreeze(height) == height >= 145364 /\ height < 145464

\* the protocol switch as it was before the upper height was added
NewDifficultyProtocol_Open(height) == height >= 145000

\* fNewDifficultyProtocol
NewDifficultyProtocol(height) == height >= 145000 /\ height < 145365

\* the walk back to the last block that is not a special min-difficulty block
RECURSIVE LastOrdinaryBits(_, _, _, _, _)
LastOrdinaryBits(chain, height, k, params, nProofOfWorkLimit) ==
    IF /\ HasPrev(height, k)
       /\ (height - k) % DifficultyAdjustmentInterval(params) # 0
       /\ Ancestor(chain, k).nBits = nProofOfWorkLimit
    THEN LastOrdinaryBits(chain, height, k + 1, params, nProofOfWorkLimit)
    ELSE Ancestor(chain, k).nBits

\* the lookback without the exception for the first retarget after genesis
BlocksToGoBack_Full(height, difficultyAdjustmentInterval) ==
    difficultyAdjustmentInterval

\* blockstogoback
BlocksToGoBack(height, difficultyAdjustmentInterval) ==
    IF height + 1 # difficultyAdjustmentInterval
    THEN difficultyAdjustmentInterval
    ELSE difficultyAdjustmentInterval - 1

\* the value that stands for a call ended by a failed assertion
Aborted == -1

\* GetNextWorkRequiredOldAlgo for a tip that is not NULL
GetNextWorkRequiredOldAlgo(chain, height, pblockTime, params) ==
    LET nProofOfWorkLimit == GetCompact(params.powLimit)
        pindexLast == Ancestor(chain, 0)
        difficultyAdjustmentInterval ==
            IF NewDifficultyProtocol(height) THEN 1
            ELSE DifficultyAdjustmentInterval(params)
        blockstogoback == BlocksToGoBack(height, difficultyAdjustmentInterval)
        nHeightFirst == height - blockstogoback
    IN  IF AllowDigishieldMinDifficultyForBlock(chain, pblockTime, params)
        THEN nProofOfWorkLimit
        ELSE IF InLegacyFreeze(height) THEN nProofOfWorkLimit
        ELSE IF (height + 1) % difficultyAdjustmentInterval # 0
        THEN IF params.fPowAllowMinDifficultyBlocks
             THEN IF pblockTime > pindexLast.nTime + params.nPowTargetSpacing * 2
                  THEN nProofOfWorkLimit
                  ELSE LastOrdinaryBits(chain, height, 0, params,
                                        nProofOfWorkLimit)
             ELSE pindexLast.nBits
        ELSE IF nHeightFirst < 0 THEN Aborted
        ELSE CalculateDogecoinNextWorkRequired(pindexLast.nBits,
                 pindexLast.nTime, Ancestor(chain, blockstogoback).nTime,
                 params)

\* the retarget without the upper limit of the adjustment step
CalculateNextWorkRequired_Unclamped(nBits, nLastBlockTime, nFirstBlockTime, params) ==
    IF params.fPowNoRetargeting THEN nBits
    ELSE LET nActualTimespan ==
                 Max(nLastBlockTime - nFirstBlockTime,
                     params.nPowTargetTimespan \div 4)
             bnNew == BnDivSmall(BnMulSmall(SetCompact(nBits),
                                            nActualTimespan),
                                 params.nPowTargetTimespan)
         IN  IF BnGreater(bnNew, params.powLimit)
             THEN GetCompact(params.powLimit)
             ELSE GetCompact(bnNew)

\* CalculateNextWorkRequired, for a tip with the given nBits and block time
CalculateNextWorkRequired(nBits, nLastBlockTime, nFirstBlockTime, params) ==
    IF params.fPowNoRetargeting THEN nBits
    ELSE LET nSpan == nLastBlockTime - nFirstBlockTime
             nAtLeast == IF nSpan < params.nPowTargetTimespan \div 4
                         THEN params.nPowTargetTimespan \div 4
                         ELSE nSpan
             nActualTimespan ==
                 IF nAtLeast > params.nPowTargetTimespan * 4
                 THEN params.nPowTargetTimespan * 4
                 ELSE nAtLeast
             bnNew == BnDivSmall(BnMulSmall(SetCompact(nBits),
                                            nActualTimespan),
                                 params.nPowTargetTimespan)
         IN  IF BnGreater(bnNew, params.powLimit)
             THEN GetCompact(params.powLimit)
             ELSE GetCompact(bnNew)

\* ------------------------------------------------------------------------
\* pow.cpp: GetNextWorkRequired
\* ------------------------------------------------------------------------
\* the dispatch with > in place of >=
UsesNewAlgo_Strict(height) == height + 1 > 155550

\* if (pindexLast->nHeight + 1 >= 155550)
UsesNewAlgo(height) == height + 1 >= 155550

\* GetNextWorkRequired for a tip that is not NULL
GetNextWorkRequired(chain, height, pblockTime, nCurrentTime, params) ==
    IF UsesNewAlgo(height)
    THEN GetNextWorkRequiredNewAlgo(chain, height, nCurrentTime, params)
    ELSE GetNextWorkRequiredOldAlgo(chain, height, pblockTime, params)

\* what a call with pindexLast == NULL can do: pindexLast->nHeight is read
\* through the null pointer before either algorithm tests the pointer, so the
\* call faults, or the read yields some height and the chosen algorithm's
\* null test returns the limit
NullTipOutcomes(params) ==
    { [pc |-> "fault", nBits |-> 0],
      [pc |-> "evaluated", nBits |-> GetCompact(params.powLimit)] }

\* the parameter set handed to GetNextWorkRequired for the block at nHeight
ActiveParams(nBlockHeight) ==
    ConsensusNodes[GetConsensus(ConsensusNodes, pConsensusRoot,
                                U32(nBlockHeight))]

\* ------------------------------------------------------------------------
\* State
\* ------------------------------------------------------------------------
VARIABLES
    network,        \* the selected network
    nHeight,        \* height of the tip, -1 while there is no tip
    vChain,         \* the most recent blocks, the tip last
    nSteps,         \* blocks connected since the initial state
    pc,             \* "idle", "evaluated" or "fault"
    pblockTime,     \* GetBlockTime() of the candidate of the last call
    nNow,           \* what GetTime() returned during the last call
    nBitsResult,    \* what the last call of GetNextWorkRequired returned
    powHash,        \* CheckProofOfWork: hash
    powBits,        \* CheckProofOfWork: nBits
    powResult,      \* CheckProofOfWork: the returned value
    tree,           \* a tree of parameter sets: [root, nodes]
    nTargetHeight,  \* GetConsensus: the height asked for
    pResult         \* GetConsensus: the node returned

chainVars == <<network, nHeight, vChain, nSteps, pc, pblockTime, nNow,
               nBitsResult>>

powVars == <<powHash, powBits, powResult>>

treeVars == <<tree, nTargetHeight, pResult>>

VARIABLES
    pCurrentParams,  \* the selected parameter object, NULL before a selection
    chainParams,     \* mainParams, testNetParams and regTestParams
    strNetwork,      \* SelectParams: the name of the last call
    fThrown,         \* SelectParams: the last call ended by an exception
    paramsOp,        \* the last operation of chainparams that was called
    pParamsResult    \* Params(): the object returned

paramsVars == <<pCurrentParams, chainParams, strNetwork, fThrown, paramsOp,
                pParamsResult>>

VARIABLES
    legacyParams,    \* the parameter set handed to the legacy functions
    nFirstBlockTime, \* CalculateNextWorkRequired: nFirstBlockTime
    nRetargetBits    \* CalculateNextWorkRequired: the returned value

legacyVars == <<legacyParams, nFirstBlockTime, nRetargetBits>>

vars == <<chainVars, powVars, treeVars, paramsVars, legacyVars>>

\* ------------------------------------------------------------------------
\* Bounds
\* ------------------------------------------------------------------------
\* blocks of the index kept in vChain
WindowSize == 21

\* blocks connected in one behaviour
MaxSteps == 2

\* candidate block times, as seconds after the tip's time
Deltas == {10, 60, 200, 1260}

\* clock readings during a call, as seconds after the tip's time
ClockOffsets == {30, 150, 400, 1000}

\* spacings of the blocks before the initial tip, most recent first, repeated;
\* in the last pattern every other block carries a time 30 seconds before its
\* predecessor's, still above the median of the eleven blocks before it
SpacingPatterns ==
    {<<60>>, <<10>>, <<36>>, <<100>>, <<5, 200>>, <<-30, 100>>}

\* chosen spacings a call is compared under
ChosenSpacings == {1, 10, 35, 36, 60, 84, 85, 200, 6000}

\* 0x1e0fffff, the compact form of powLimit
PowLimitCompact == GetCompact(powLimit)

\* ------------------------------------------------------------------------
\* Initial chains
\* ------------------------------------------------------------------------
RECURSIVE TimeBack(_, _, _)
\* the time of the k-th ancestor of a tip at tipTime under a spacing pattern
TimeBack(tipTime, pattern, k) ==
    IF k = 0 THEN tipTime
    ELSE TimeBack(tipTime, pattern, k - 1)
             - pattern[((k - 1) % Len(pattern)) + 1]

\* WindowSize blocks ending at a tip at tipTime, all mined at nBits
WindowOf(tipTime, pattern, nBits) ==
    [i \in 1..WindowSize |->
        [nTime |-> TimeBack(tipTime, pattern, WindowSize - i),
         nBits |-> nBits]]

\* a tip two blocks before the fork height: the legacy freeze left the chain
\* at the limit; on-target epochs have kept it there, or one epoch of 300
\* seconds has quartered it
PreForkHeight == 155550 - 2

PreForkBits ==
    { PowLimitCompact,
      CalculateDogecoinNextWorkRequired(PowLimitCompact, GenesisTime + 300,
                                        GenesisTime, consensus) }

\* the last tip of the post-fork freeze, whose block was mined at the limit
PostFreezeHeight == 155650

RECURSIVE BitsAfter(_, _)
\* nBits after blocks whose calls chose the given spacings in turn, each call
\* made within two target spacings of its tip and with no flag set; a target
\* of zero stays zero
BitsAfter(nBits, spacings) ==
    IF spacings = <<>> THEN nBits
    ELSE LET nNext == GetCompact(TargetForSpacing(nBits, Head(spacings),
                                     FALSE, FALSE, 0, consensus))
         IN  IF nNext = 0 THEN 0 ELSE BitsAfter(nNext, Tail(spacings))

\* a tip well past the freeze: blocks 36 seconds apart have lowered the
\* target, blocks 60 seconds apart have then kept it
SteadyHeight == 155700

SteadyBits == BitsAfter(PowLimitCompact, <<36, 36, 36, 36, 36, 36, 44, 52>>)

RECURSIVE ChainAfter(_, _, _)
\* the window after blocks connected at the given spacings, each mined at the
\* target that a call made 30 seconds after its tip required
ChainAfter(chain, height, deltas) ==
    IF deltas = <<>> THEN chain
    ELSE LET tipTime == chain[Len(chain)].nTime
             nNext == GetNextWorkRequired(chain, height,
                          tipTime + Head(deltas), tipTime + 30,
                          ActiveParams(height + 1))
         IN  IF nNext = Aborted THEN chain
             ELSE ChainAfter(Tail(Append(chain,
                                 [nTime |-> tipTime + Head(deltas),
                                  nBits |-> nNext])),
                             height + 1, Tail(deltas))

\* slow and fast blocks in alternation on the steady tip: hashrate that
\* switches away and back
SwitchingDeltas == <<200, 10, 200, 10>>

SwitchingHeight == SteadyHeight + Len(SwitchingDeltas)

SwitchingChain ==
    ChainAfter(WindowOf(GenesisTime + 60 * SteadyHeight, <<60>>, SteadyBits),
               SteadyHeight, SwitchingDeltas)

InitChain ==
    /\ network \in Networks
    /\ \/ /\ nHeight = -1
          /\ vChain = <<>>
       \/ /\ nHeight = 0
          /\ vChain = <<GenesisBlock(network)>>
       \/ /\ network # "regtest"
          /\ nHeight = PreForkHeight
          /\ \E nBits \in PreForkBits :
                 vChain = WindowOf(GenesisTime + 60 * PreForkHeight, <<60>>,
                                   nBits)
       \/ /\ network # "regtest"
          /\ nHeight = PostFreezeHeight
          /\ \E pattern \in SpacingPatterns :
                 vChain = WindowOf(GenesisTime + 60 * PostFreezeHeight,
                                   pattern, PowLimitCompact)
       \/ /\ network # "regtest"
          /\ nHeight = SteadyHeight
          /\ vChain = WindowOf(GenesisTime + 60 * SteadyHeight, <<60>>,
                               SteadyBits)
       \/ /\ network # "regtest"
          /\ nHeight = SwitchingHeight
          /\ vChain = SwitchingChain
    /\ nSteps = 0
    /\ pc = "idle"
    /\ pblockTime = 0
    /\ nNow = 0
    /\ nBitsResult = 0

IdleChain ==
    /\ network = "main"
    /\ nHeight = -1
    /\ vChain = <<>>
    /\ nSteps = 0
    /\ pc = "idle"
    /\ pblockTime = 0
    /\ nNow = 0
    /\ nBitsResult = 0

IdlePow == powHash = BnZero /\ powBits = 0 /\ powResult = FALSE

IdleTree ==
    /\ tree = [root |-> pConsensusRoot, nodes |-> ConsensusNodes]
    /\ nTargetHeight = U32(0)
    /\ pResult = NULL

\* before any call of SelectParams
IdleParams ==
    /\ pCurrentParams = NULL
    /\ chainParams = StaticChainParams
    /\ strNetwork = NULL
    /\ fThrown = FALSE
    /\ paramsOp = "none"
    /\ pParamsResult = NULL

\* after SelectParams(network)
SelectedParams ==
    /\ pCurrentParams = Params(network)
    /\ chainParams = StaticChainParams
    /\ strNetwork = network
    /\ fThrown = FALSE
    /\ paramsOp = "SelectParams"
    /\ pParamsResult = NULL

IdleLegacy ==
    /\ legacyParams = consensus
    /\ nFirstBlockTime = 0
    /\ nRetargetBits = 0

Init == InitChain /\ IdlePow /\ IdleTree /\ SelectedParams /\ IdleLegacy

\* ------------------------------------------------------------------------
\* Actions on the chain
\* ------------------------------------------------------------------------
\* a call of GetNextWorkRequired for a candidate on the tip
Evaluate ==
    /\ pc = "idle"
    /\ nHeight >= 0
    /\ \E delta \in Deltas, offset \in ClockOffsets :
          LET tipTime == Ancestor(vChain, 0).nTime
          IN  /\ pblockTime' = tipTime + delta
              /\ nNow' = tipTime + offset
              /\ nBitsResult' = GetNextWorkRequired(vChain, nHeight,
                                    tipTime + delta, tipTime + offset,
                                    ActiveParams(nHeight + 1))
    /\ pc' = "evaluated"
    /\ UNCHANGED <<network, nHeight, vChain, nSteps, powVars, treeVars,
                   paramsVars, legacyVars>>

\* a call of GetNextWorkRequired with pindexLast == NULL
EvaluateNullTip ==
    /\ pc = "idle"
    /\ nHeight = -1
    /\ \E outcome \in NullTipOutcomes(ActiveParams(0)) :
          /\ nBitsResult' = outcome.nBits
          /\ pc' = outcome.pc
    /\ pblockTime' = GenesisTime
    /\ nNow' = GenesisTime
    /\ UNCHANGED <<network, nHeight, vChain, nSteps, powVars, treeVars,
                   paramsVars, legacyVars>>

\* the candidate, mined at the required target, becomes the new tip
ConnectBlock ==
    /\ pc = "evaluated"
    /\ nHeight >= 0
    /\ nSteps < MaxSteps
    /\ nBitsResult # Aborted
    /\ LET extended == Append(vChain, [nTime |-> pblockTime,
                                       nBits |-> nBitsResult])
       IN  vChain' = IF Len(extended) > WindowSize THEN Tail(extended)
                     ELSE extended
    /\ nHeight' = nHeight + 1
    /\ nSteps' = nSteps + 1
    /\ pc' = "idle"
    /\ UNCHANGED <<network, pblockTime, nNow, nBitsResult, powVars, treeVars,
                   paramsVars, legacyVars>>

Next == Evaluate \/ EvaluateNullTip \/ ConnectBlock

Spec == Init /\ [][Next]_vars

\* ------------------------------------------------------------------------
\* pow.cpp: CheckProofOfWork
\* ------------------------------------------------------------------------
\* the check rejecting a hash equal to the target
CheckProofOfWork_Strict(hash, nBits, params) ==
    LET bnTarget == SetCompact(nBits)
    IN  IF \/ CompactNegative(nBits)
           \/ BnIsZero(bnTarget)
           \/ CompactOverflow(nBits)
           \/ BnGreater(bnTarget, params.powLimit)
        THEN FALSE
        ELSE IF ~BnLess(hash, bnTarget) THEN FALSE
        ELSE TRUE

CheckProofOfWork(hash, nBits, params) ==
    LET bnTarget == SetCompact(nBits)
    IN  IF \/ CompactNegative(nBits)
           \/ BnIsZero(bnTarget)
           \/ CompactOverflow(nBits)
           \/ BnGreater(bnTarget, params.powLimit)
        THEN FALSE
        ELSE IF BnGreater(hash, bnTarget) THEN FALSE
        ELSE TRUE

\* compact targets handed to CheckProofOfWork: valid ones, zero, negative,
\* overflowing ones and ones above the limit
\* 0x00000000 0x01010000 0x01003456 0x03000001 0x04923456 0x1d00ffff
\* 0x1e0ffff0 0x1e0fffff 0x1e100000 0x1e8fffff 0x207fffff 0x2100ffff
\* 0x21010000 0x220000ff 0x22010000 0x23000001
PowBitsInputs ==
    { 0, 16842752, 16791638, 50331649, 76690518, 486604799,
      504365040, 504365055, 504365056, 512753663, 545259519, 553713663,
      553713664, 570425599, 570490880, 587202561 }

\* 2^(8*n)
BnPow256(n) == BnShiftBytes(BnFromInt(1), n)

\* hashes handed to CheckProofOfWork: around the targets and the limit
PowHashInputs ==
    { BnZero, BnFromInt(1), BnFromInt(2),
      SetCompact(486604799), BnAdd(SetCompact(486604799), BnFromInt(1)),
      SetCompact(504365040), BnAdd(SetCompact(504365040), BnFromInt(1)),
      powLimit, BnAdd(powLimit, BnFromInt(1)), BnPow256(31), BnMax }

\* a call of CheckProofOfWork with the consensus parameters of the network
CheckPow ==
    /\ \E hash \in PowHashInputs, nBits \in PowBitsInputs :
          /\ powHash' = hash
          /\ powBits' = nBits
          /\ powResult' = CheckProofOfWork(hash, nBits, consensus)
    /\ UNCHANGED <<chainVars, treeVars, paramsVars, legacyVars>>

NextPow == CheckPow

InitPow == IdleChain /\ IdlePow /\ IdleTree /\ IdleParams /\ IdleLegacy

SpecPow == InitPow /\ [][NextPow]_vars

\* ------------------------------------------------------------------------
\* Trees of parameter sets for GetConsensus
\* ------------------------------------------------------------------------
\* the largest small activation height of a generated tree
MaxTreeKey == 3

TreeKeys == {U32(k) : k \in 0..MaxTreeKey} \cup {UINT32_MAX}

LookupHeights == {U32(k) : k \in 0..(MaxTreeKey + 1)} \cup {UINT32_MAX}

TreeNode(key, left, right) ==
    [nHeightEffective |-> key, pLeft |-> left, pRight |-> right]

\* the shapes of the trees of one, two and three sets under the root "a"
TreeShapes(ka, kb, kc) ==
    { [a |-> TreeNode(ka, NULL, NULL)],
      [a |-> TreeNode(ka, "b", NULL), b |-> TreeNode(kb, NULL, NULL)],
      [a |-> TreeNode(ka, NULL, "b"), b |-> TreeNode(kb, NULL, NULL)],
      [a |-> TreeNode(ka, "b", "c"), b |-> TreeNode(kb, NULL, NULL),
       c |-> TreeNode(kc, NULL, NULL)],
      [a |-> TreeNode(ka, "b", NULL), b |-> TreeNode(kb, "c", NULL),
       c |-> TreeNode(kc, NULL, NULL)],
      [a |-> TreeNode(ka, "b", NULL), b |-> TreeNode(kb, NULL, "c"),
       c |-> TreeNode(kc, NULL, NULL)],
      [a |-> TreeNode(ka, NULL, "b"), b |-> TreeNode(kb, "c", NULL),
       c |-> TreeNode(kc, NULL, NULL)],
      [a |-> TreeNode(ka, NULL, "b"), b |-> TreeNode(kb, NULL, "c"),
       c |-> TreeNode(kc, NULL, NULL)] }

RECURSIVE Subtree(_, _)
\* the nodes of the subtree under node n
Subtree(nodes, n) ==
    IF n = NULL THEN {}
    ELSE {n} \cup Subtree(nodes, nodes[n].pLeft)
             \cup Subtree(nodes, nodes[n].pRight)

\* ordered by nHeightEffective: left subtree smaller, right subtree larger
IsSearchTree(nodes) ==
    \A n \in DOMAIN nodes :
        /\ \A m \in Subtree(nodes, nodes[n].pLeft) :
               U32Less(nodes[m].nHeightEffective, nodes[n].nHeightEffective)
        /\ \A m \in Subtree(nodes, nodes[n].pRight) :
               U32Less(nodes[n].nHeightEffective, nodes[m].nHeightEffective)

SearchTrees ==
    { [root |-> "a", nodes |-> nodes] :
        nodes \in { t \in UNION { TreeShapes(ka, kb, kc) :
                                      ka \in TreeKeys, kb \in TreeKeys,
                                      kc \in TreeKeys } :
                    IsSearchTree(t) } }

InitTrees ==
    /\ tree \in SearchTrees
                  \cup {[root |-> pConsensusRoot, nodes |-> ConsensusNodes]}
    /\ nTargetHeight = U32(0)
    /\ pResult = NULL

\* a call of GetConsensus on the root of the tree
Lookup ==
    /\ \E nTarget \in LookupHeights :
          /\ nTargetHeight' = nTarget
          /\ pResult' = GetConsensus(tree.nodes, tree.root, nTarget)
    /\ UNCHANGED <<tree, chainVars, powVars, paramsVars, legacyVars>>

NextTree == Lookup

InitTree == IdleChain /\ IdlePow /\ InitTrees /\ IdleParams /\ IdleLegacy

SpecTree == InitTree /\ [][NextTree]_vars

\* ------------------------------------------------------------------------
\* chainparams.cpp: SelectParams, Params, UpdateRegtestBIP9Parameters
\* ------------------------------------------------------------------------
\* names handed to SelectParams
NetworkNames == Networks \cup {"", "signet"}

\* nStartTime and nTimeout handed to UpdateRegtestBIP9Parameters
StartTimes == {0, 1199145601}

Timeouts == {1230767999}

\* heights handed to GetConsensus on a parameter object
ParamsHeights ==
    {U32(0), U32(155550), <<32768, 0>>, <<65535, 65534>>, UINT32_MAX}

\* SelectParams(network): SelectBaseParams(network), then
\* pCurrentParams = &Params(network)
SelectParams ==
    /\ paramsOp # "abort"
    /\ \E chain \in NetworkNames :
          \E fBaseThrows \in SelectBaseParamsThrows(chain) :
             /\ strNetwork' = chain
             /\ IF fBaseThrows \/ Params(chain) = Thrown
                THEN /\ fThrown' = TRUE
                     /\ pCurrentParams' = pCurrentParams
                ELSE /\ fThrown' = FALSE
                     /\ pCurrentParams' = Params(chain)
    /\ paramsOp' = "SelectParams"
    /\ UNCHANGED <<chainParams, pParamsResult, chainVars, powVars, treeVars,
                   legacyVars>>

\* Params(): assert(pCurrentParams); return *pCurrentParams
CurrentParams ==
    /\ paramsOp # "abort"
    /\ IF pCurrentParams = NULL
       THEN /\ paramsOp' = "abort"
            /\ pParamsResult' = pParamsResult
       ELSE /\ paramsOp' = "Params"
            /\ pParamsResult' = pCurrentParams
    /\ UNCHANGED <<pCurrentParams, chainParams, strNetwork, fThrown,
                   chainVars, powVars, treeVars, legacyVars>>

\* UpdateRegtestBIP9Parameters(d, nStartTime, nTimeout)
UpdateRegtestBIP9Parameters ==
    /\ paramsOp # "abort"
    /\ \E d \in DeploymentPos, nStartTime \in StartTimes,
             nTimeout \in Timeouts :
          chainParams' =
              [ chainParams EXCEPT !["regTestParams"] =
                    UpdateBIP9Parameters(@, d, nStartTime, nTimeout) ]
    /\ paramsOp' = "UpdateRegtestBIP9Parameters"
    /\ UNCHANGED <<pCurrentParams, strNetwork, fThrown, pParamsResult,
                   chainVars, powVars, treeVars, legacyVars>>

\* GetConsensus(nTargetHeight) on the root of the parameter tree
GetConsensusOfParams ==
    /\ paramsOp # "abort"
    /\ \E nTarget \in ParamsHeights :
          /\ nTargetHeight' = nTarget
          /\ pResult' = GetConsensus(tree.nodes, tree.root, nTarget)
    /\ paramsOp' = "GetConsensus"
    /\ UNCHANGED <<tree, pCurrentParams, chainParams, strNetwork, fThrown,
                   pParamsResult, chainVars, powVars, legacyVars>>

NextParams ==
    \/ SelectParams
    \/ CurrentParams
    \/ UpdateRegtestBIP9Parameters
    \/ GetConsensusOfParams

InitParams == IdleChain /\ IdlePow /\ IdleTree /\ IdleParams /\ IdleLegacy

SpecParams == InitParams /\ [][NextParams]_vars

\* ------------------------------------------------------------------------
\* pow.cpp: the legacy functions called on their own
\* ------------------------------------------------------------------------
\* tip heights: the first epochs, the heights around the per-block protocol
\* and the legacy freeze, and the last legacy heights
LegacyHeights ==
    {0, 1, 19, 39, 100, 144999, 145000, 145363, 145364, 145463, 145464,
     155548}

\* nBits of the tip: 0x1e0fffff, 0x1d00ffff and the two genesis values
LegacyBits ==
    {PowLimitCompact, 486604799, GenesisBitsMain, GenesisBitsRegtest}

LegacyPatterns == {<<60>>, <<10>>, <<300>>}

\* parameter sets: the three of the constructors, and the base set with the
\* min-difficulty rule or with retargeting switched off
LegacyParamSets ==
    { consensus, digishieldConsensus, minDifficultyConsensus,
      [consensus EXCEPT !.fPowAllowMinDifficultyBlocks = TRUE],
      [consensus EXCEPT !.fPowNoRetargeting = TRUE] }

\* pindexLast->GetBlockTime() - nFirstBlockTime of a call
TimespanInputs == {-60, 200, 300, 1200, 2400, 4800, 6000}

\* the blocks of WindowOf that exist below a tip at the given height
LegacyWindow(height, pattern, nBits) ==
    LET n == Min(WindowSize, height + 1)
    IN  SubSeq(WindowOf(GenesisTime + 60 * height, pattern, nBits),
               WindowSize - n + 1, WindowSize)

InitLegacy ==
    /\ network = "main"
    /\ nHeight \in LegacyHeights
    /\ \E pattern \in LegacyPatterns, nBits \in LegacyBits :
          vChain = LegacyWindow(nHeight, pattern, nBits)
    /\ nSteps = 0
    /\ pc = "idle"
    /\ pblockTime = 0
    /\ nNow = 0
    /\ nBitsResult = 0
    /\ legacyParams \in LegacyParamSets
    /\ nFirstBlockTime = 0
    /\ nRetargetBits = 0
    /\ IdlePow
    /\ IdleTree
    /\ IdleParams

\* a call of GetNextWorkRequiredOldAlgo for a candidate on the tip
EvaluateOldAlgo ==
    /\ pc = "idle"
    /\ \E delta \in Deltas :
          LET tipTime == Ancestor(vChain, 0).nTime
          IN  /\ pblockTime' = tipTime + delta
              /\ nBitsResult' = GetNextWorkRequiredOldAlgo(vChain, nHeight,
                                    tipTime + delta, legacyParams)
    /\ pc' = "evaluated"
    /\ UNCHANGED <<network, nHeight, vChain, nSteps, nNow, powVars, treeVars,
                   paramsVars, legacyVars>>

\* a call of CalculateNextWorkRequired on the tip
CalculateNextWork ==
    /\ \E nSpan \in TimespanInputs :
          LET pindexLast == Ancestor(vChain, 0)
          IN  /\ nFirstBlockTime' = pindexLast.nTime - nSpan
              /\ nRetargetBits' = CalculateNextWorkRequired(pindexLast.nBits,
                                      pindexLast.nTime,
                                      pindexLast.nTime - nSpan, legacyParams)
    /\ UNCHANGED <<legacyParams, chainVars, powVars, treeVars, paramsVars>>

NextLegacy == EvaluateOldAlgo \/ CalculateNextWork

SpecLegacy == InitLegacy /\ [][NextLegacy]_vars

\* ------------------------------------------------------------------------
\* Properties
\* ------------------------------------------------------------------------
\* the last call was made on a tip and returned
Evaluated == pc = "evaluated" /\ nHeight >= 0

TipBlock == Ancestor(vChain, 0)

\* a compact target decodes to a value T with 0 < T <= powLimit
ValidTarget(nCompact) ==
    /\ ~CompactNegative(nCompact)
    /\ ~CompactOverflow(nCompact)
    /\ ~BnIsZero(SetCompact(nCompact))
    /\ BnLeq(SetCompact(nCompact), powLimit)

\* C1: on every network, for every tip grown from the genesis block, every
\* candidate time and every clock reading, the compact target returned by
\* GetNextWorkRequired decodes to a value T with 0 < T <= powLimit.
C1_TargetInRange == Evaluated => ValidTarget(nBitsResult)

\* C2: GetNextWorkRequired is a function of the tip, the candidate, the
\* parameters and the chain view alone: whatever the clock reads during the
\* call, the same compact target is returned.
C2_ClockIndependent ==
    Evaluated =>
        \A offset \in ClockOffsets :
            GetNextWorkRequired(vChain, nHeight, pblockTime,
                                TipBlock.nTime + offset,
                                ActiveParams(nHeight + 1)) = nBitsResult

\* C3: in the adaptive path (candidate height at least 155550, the tip and
\* its predecessor present), when the candidate's time exceeds the tip's time
\* by more than 20 target spacings the result is the compact form of powLimit.
C3_EmergencyReset ==
    (/\ Evaluated
     /\ nHeight + 1 >= 155550
     /\ nHeight > 0
     /\ pblockTime - TipBlock.nTime > 20 * 60)
        => nBitsResult = PowLimitCompact

\* C4: for every tip with 155550 <= height < 155650, whatever the block
\* times, the nBits history, the candidate time and the clock,
\* GetNextWorkRequired returns the compact form of powLimit.
C4_PostForkFreeze ==
    (Evaluated /\ nHeight >= 155550 /\ nHeight < 155650)
        => nBitsResult = PowLimitCompact

\* a call on the first tip of the freeze, itself mined below the limit
C4_Witness ==
    /\ Evaluated
    /\ nHeight = 155550
    /\ TipBlock.nBits # PowLimitCompact
    /\ nBitsResult = PowLimitCompact

\* C5: GetNextWorkRequired dispatches on the candidate height H = height + 1:
\* the result is the legacy algorithm's for every H < 155550 and the adaptive
\* algorithm's for every H >= 155550.
C5_Dispatch ==
    Evaluated =>
        /\ nHeight + 1 < 155550 =>
               nBitsResult = GetNextWorkRequiredOldAlgo(vChain, nHeight,
                                 pblockTime, ActiveParams(nHeight + 1))
        /\ nHeight + 1 >= 155550 =>
               nBitsResult = GetNextWorkRequiredNewAlgo(vChain, nHeight,
                                 nNow, ActiveParams(nHeight + 1))

\* a call at the first adaptive height on which the two algorithms differ
C5_Witness ==
    /\ Evaluated
    /\ nHeight + 1 = 155550
    /\ GetNextWorkRequiredOldAlgo(vChain, nHeight, pblockTime,
                                  ActiveParams(nHeight + 1))
           # GetNextWorkRequiredNewAlgo(vChain, nHeight, nNow,
                                        ActiveParams(nHeight + 1))
    /\ nBitsResult = GetNextWorkRequiredNewAlgo(vChain, nHeight, nNow,
                                                ActiveParams(nHeight + 1))

\* C6: a call with no tip, or with a tip that has no predecessor, returns
\* the compact form of powLimit and never faults.
C6_NullTipHandled ==
    /\ pc # "fault"
    /\ (pc = "evaluated" /\ nHeight <= 0) => nBitsResult = PowLimitCompact

\* the target the last call of CheckProofOfWork decoded
PowTarget == SetCompact(powBits)

\* C7: CheckProofOfWork returns false exactly when the decoded target is
\* negative, is zero, overflows, exceeds powLimit or is smaller than the hash,
\* and true otherwise; so a true result implies hash <= target <= powLimit.
C7_CheckProofOfWork ==
    /\ powResult = ~(\/ CompactNegative(powBits)
                     \/ BnIsZero(PowTarget)
                     \/ CompactOverflow(powBits)
                     \/ BnGreater(PowTarget, powLimit)
                     \/ BnGreater(powHash, PowTarget))
    /\ powResult => BnLeq(powHash, PowTarget) /\ BnLeq(PowTarget, powLimit)

\* a hash that equals its target is accepted
C7_Witness ==
    /\ powResult
    /\ powHash = PowTarget
    /\ ~BnIsZero(powHash)

\* GetConsensus has been called on a tree ordered by nHeightEffective
LookedUp == pResult # NULL /\ IsSearchTree(tree.nodes)

\* node n takes effect at or below the height asked for
EffectiveAt(n) == ~U32Less(nTargetHeight, tree.nodes[n].nHeightEffective)

\* the returned set takes effect at or below the height asked for, and no
\* set of the tree takes effect after it and at or below that height
GreatestBelow ==
    /\ EffectiveAt(pResult)
    /\ \A n \in DOMAIN tree.nodes :
           ~(/\ U32Less(tree.nodes[pResult].nHeightEffective,
                        tree.nodes[n].nHeightEffective)
             /\ EffectiveAt(n))

\* C8 as stated: for every height H and every tree ordered by
\* nHeightEffective, GetConsensus(H) on the root returns the set with the
\* greatest nHeightEffective <= H.
C8_GreatestBelow == LookedUp => GreatestBelow

\* C8, amended: the same, for every height H at or below which some set of
\* the tree takes effect.
C8_GreatestBelowIfAny ==
    (LookedUp /\ \E n \in DOMAIN tree.nodes : EffectiveAt(n)) => GreatestBelow

\* a tree of three sets whose root defers to its right subtree's answer only
\* after testing it: the right child itself takes effect too late
C8_Witness ==
    /\ LookedUp
    /\ Cardinality(DOMAIN tree.nodes) = 3
    /\ pResult = tree.root
    /\ tree.nodes[tree.root].pRight # NULL
    /\ U32Less(tree.nodes[tree.root].nHeightEffective, nTargetHeight)
    /\ \E n \in DOMAIN tree.nodes : ~EffectiveAt(n)

\* the last call took the adaptive path and none of its early returns
AdjustedCall ==
    /\ Evaluated
    /\ nHeight + 1 >= 155550
    /\ nHeight > 0
    /\ ~(nHeight >= 155550 /\ nHeight < 155650)
    /\ ~DeathSpiral(nNow - TipBlock.nTime, 60)
    /\ ~SevereDelay(Spacing(vChain, 0, 60), nNow - TipBlock.nTime, 60)

\* the limits of the band the last call selected
SelectedLimits ==
    LET recentSpacings == RecentSpacings(vChain, nHeight, 60)
    IN  AdjustmentLimits(PossibleAttack(recentSpacings, 60),
                         RecentLargeAdjustment(vChain, nHeight),
                         nNow - TipBlock.nTime, 60)

\* C9: in the adaptive path, when no early return is taken, the new target
\* stays within the selected band's cap c of the tip's target prev:
\* prev/(1+c) <= new <= prev*(1+c), the larger percentage of the band for c.
C9_CapRespected ==
    AdjustedCall =>
        LET cap == Max(SelectedLimits.maxIncrease, SelectedLimits.maxDecrease)
            bnPrev == SetCompact(TipBlock.nBits)
            bnNew == SetCompact(nBitsResult)
        IN  /\ BnLeq(BnMulSmall(bnNew, 100), BnMulSmall(bnPrev, 100 + cap))
            /\ BnLeq(BnMulSmall(bnPrev, 100), BnMulSmall(bnNew, 100 + cap))

\* C10: in the adaptive path past the freeze, with no anomaly flag and no
\* emergency, when every recent spacing is 10 seconds the returned target is
\* a quarter of the tip's target.
C10_FastBlocksQuartered ==
    (/\ AdjustedCall
     /\ nHeight >= 155650
     /\ nNow - TipBlock.nTime <= 2 * 60
     /\ pblockTime - TipBlock.nTime <= 2 * 60
     /\ ~RecentLargeAdjustment(vChain, nHeight)
     /\ ~PossibleAttack(RecentSpacings(vChain, nHeight, 60), 60)
     /\ \A i \in 1..SpacingCount(nHeight) :
            RecentSpacings(vChain, nHeight, 60)[i] = 10)
        => nBitsResult = GetCompact(BnDivSmall(
                             BnMulSmall(SetCompact(TipBlock.nBits), 25), 100))

\* the last call took the averaging steps with neither anomaly flag set
PlainCall ==
    /\ AdjustedCall
    /\ ~RecentLargeAdjustment(vChain, nHeight)
    /\ ~PossibleAttack(RecentSpacings(vChain, nHeight, 60), 60)

\* the target the last call would have returned had it chosen the spacing s
TargetChoosing(s) ==
    SetCompact(GetCompact(TargetForSpacing(TipBlock.nBits, s, FALSE, FALSE,
                              nNow - TipBlock.nTime,
                              ActiveParams(nHeight + 1))))

\* C11: in the adaptive path with no anomaly flag and all other inputs fixed,
\* the returned target is monotone non-decreasing in the chosen spacing: a
\* larger chosen spacing never gives a smaller target.
C11_MonotoneInSpacing ==
    PlainCall =>
        \A s \in ChosenSpacings :
            LET chosen == ShortTermAverage(RecentSpacings(vChain, nHeight, 60))
            IN  /\ s >= chosen =>
                       BnLeq(SetCompact(nBitsResult), TargetChoosing(s))
                /\ s <= chosen =>
                       BnLeq(TargetChoosing(s), SetCompact(nBitsResult))

\* C12: in the adaptive path with the tip at 155650 or above, when the last
\* 12 spacings all equal the target spacing of 60 seconds the returned
\* compact target is the tip's nBits.
C12_OnTargetFixedPoint ==
    (/\ Evaluated
     /\ nHeight >= 155650
     /\ \A i \in 0..11 : Ancestor(vChain, i).nTime
                             - Ancestor(vChain, i + 1).nTime = 60)
        => nBitsResult = TipBlock.nBits

\* C13: SelectParams(name) succeeds only for the names main, test and
\* regtest, and Params() then returns the parameter object of that network;
\* for any other name it throws and leaves pCurrentParams as it was.
C13_SelectParams ==
    /\ [][paramsOp' = "SelectParams" =>
             /\ fThrown' <=> strNetwork' \notin {"main", "test", "regtest"}
             /\ ~fThrown' =>
                    /\ pCurrentParams' # NULL
                    /\ chainParams[pCurrentParams'].strNetworkID = strNetwork'
             /\ fThrown' => pCurrentParams' = pCurrentParams]_vars
    /\ [](paramsOp = "Params" /\ ~fThrown =>
             chainParams[pParamsResult].strNetworkID = strNetwork)

\* a call with an unknown name after a successful selection, which stays
C13_Witness ==
    /\ paramsOp = "SelectParams"
    /\ fThrown
    /\ strNetwork = "signet"
    /\ pCurrentParams = "testNetParams"

\* C14: selection is one-shot: in every sequence of SelectParams calls, once
\* a network has been selected the parameters Params() returns never change.
C14_OneShotSelection ==
    [][pCurrentParams # NULL => pCurrentParams' = pCurrentParams]_vars

\* C15: the parameter objects are immutable after construction: no operation
\* of chainparams changes a field of mainParams, testNetParams or
\* regTestParams.
C15_ParamsImmutable == [][chainParams' = chainParams]_vars

\* the interval the legacy path retargets on for the tip of the last call
LegacyInterval ==
    IF nHeight >= 145000 /\ nHeight < 145365 THEN 1
    ELSE legacyParams.nPowTargetTimespan \div legacyParams.nPowTargetSpacing

\* the DigiShield min-difficulty exception applies to the last call
DigishieldException ==
    /\ legacyParams.fPowAllowDigishieldMinDifficultyBlocks
    /\ legacyParams.fDigishieldDifficultyCalculation
    /\ pblockTime > TipBlock.nTime + 2 * legacyParams.nPowTargetSpacing

\* the last call was off the interval, outside the freeze, with no exception
OffInterval ==
    /\ Evaluated
    /\ ~(nHeight >= 145364 /\ nHeight < 145464)
    /\ (nHeight + 1) % LegacyInterval # 0
    /\ ~legacyParams.fPowAllowMinDifficultyBlocks
    /\ ~DigishieldException

\* C16: in the legacy path, for a tip outside [145364, 145464) with
\* (height + 1) mod interval # 0, fPowAllowMinDifficultyBlocks false and no
\* DigiShield min-difficulty exception, the result is the tip's nBits,
\* whatever the block times.
C16_OffIntervalKeepsBits == OffInterval => nBitsResult = TipBlock.nBits

\* a tip at height 100 below the limit, the candidate 21 minutes later
C16_Witness ==
    /\ OffInterval
    /\ nHeight = 100
    /\ TipBlock.nBits = 486604799
    /\ pblockTime - TipBlock.nTime = 1260
    /\ nBitsResult = 486604799

\* the smaller of two 256-bit numbers
BnMin(a, b) == IF BnLess(b, a) THEN b ELSE a

\* CalculateNextWorkRequired has been called with retargeting switched on
Retargeted == nFirstBlockTime # 0 /\ ~legacyParams.fPowNoRetargeting

\* C17: the legacy retarget returns new = min(powLimit, T * c / timespan),
\* T the tip's target, timespan = nPowTargetTimespan and c the actual
\* timespan clamped to [timespan/4, timespan*4]; so an actual timespan equal
\* to timespan gives T, and one of 4*timespan or more gives
\* min(powLimit, 4*T).
C17_LegacyRetarget ==
    Retargeted =>
        LET T == SetCompact(TipBlock.nBits)
            timespan == legacyParams.nPowTargetTimespan
            actual == TipBlock.nTime - nFirstBlockTime
            c == Min(Max(actual, timespan \div 4), timespan * 4)
        IN  /\ nRetargetBits =
                   GetCompact(BnMin(powLimit,
                                    BnDivSmall(BnMulSmall(T, c), timespan)))
            /\ actual = timespan =>
                   nRetargetBits = GetCompact(BnMin(powLimit, T))
            /\ actual >= 4 * timespan =>
                   nRetargetBits = GetCompact(BnMin(powLimit, BnMulSmall(T, 4)))

\* a tip below a quarter of the limit and five timespans after the first
\* block: the new target is four times the tip's
C17_Witness ==
    /\ Retargeted
    /\ TipBlock.nBits = 486604799
    /\ TipBlock.nTime - nFirstBlockTime
           = 5 * legacyParams.nPowTargetTimespan
    /\ nRetargetBits = GetCompact(BnMulSmall(SetCompact(486604799), 4))
    /\ nRetargetBits # PowLimitCompact

\* C18: in the legacy path, when fPowNoRetargeting is set the result is
\* always the tip's nBits: the rule comes before the min-difficulty
\* exceptions, the frozen window and the interval check.
C18_NoRetargeting ==
    (Evaluated /\ legacyParams.fPowNoRetargeting)
        => nBitsResult = TipBlock.nBits

\* the last call took the adaptive path past the guards and the freeze
AdaptiveCall ==
    /\ Evaluated
    /\ nHeight + 1 >= 155550
    /\ nHeight > 0
    /\ ~(nHeight >= 155550 /\ nHeight < 155650)

\* C19: the adaptive path returns early exactly on the thresholds of the
\* table: powLimit if and only if time_since_last > 20 target spacings,
\* otherwise the scaled emergency reduction if and only if the tip's spacing
\* exceeds 10 target spacings, otherwise the result of the averaging and
\* capping steps.
C19_EmergencyThresholds ==
    AdaptiveCall =>
        LET nTimeSinceLastBlock == nNow - TipBlock.nTime
            nActualSpacing == Spacing(vChain, 0, 60)
            params == ActiveParams(nHeight + 1)
        IN  nBitsResult =
                IF nTimeSinceLastBlock > 20 * 60 THEN PowLimitCompact
                ELSE IF nActualSpacing > 10 * 60
                THEN GetCompact(EmergencyTarget(TipBlock.nBits,
                         nActualSpacing, nTimeSinceLastBlock, 60,
                         params.powLimit))
                ELSE GetCompact(AdjustedTarget(vChain, nHeight,
                         nTimeSinceLastBlock, params))

\* the integer mean of the most recent min(n, available) clamped spacings
MeanOfRecent(n) ==
    LET count == Min(n, nHeight)
    IN  SumFirst([i \in 1..count |-> Spacing(vChain, i - 1, 60)], count)
            \div count

\* C20: in the adaptive path long_avg is the integer mean of the most recent
\* min(12, available) clamped spacings and short_avg that of the most recent
\* min(6, available).
C20_AveragingWindows ==
    AdjustedCall =>
        /\ AverageSpacing(RecentSpacings(vChain, nHeight, 60))
               = MeanOfRecent(12)
        /\ ShortTermAverage(RecentSpacings(vChain, nHeight, 60))
               = MeanOfRecent(6)


\* among the most recent six clamped spacings at least two are below a third
\* of the target spacing and at least two above three times it
SwitchingDetected ==
    LET count == Min(6, nHeight)
        fast == {i \in 1..count : Spacing(vChain, i - 1, 60) < 60 \div 3}
        slow == {i \in 1..count : Spacing(vChain, i - 1, 60) > 60 * 3}
    IN  Cardinality(fast) >= 2 /\ Cardinality(slow) >= 2

\* prev * long_avg / 60 held within [prev * 75 / 100, prev * 125 / 100]
AttackBandTarget ==
    LET bnPrev == SetCompact(TipBlock.nBits)
        long_avg == AverageSpacing(RecentSpacings(vChain, nHeight, 60))
        bnScaled == BnDivSmall(BnMulSmall(bnPrev, long_avg), 60)
        bnLow == BnDivSmall(BnMulSmall(bnPrev, 75), 100)
        bnHigh == BnDivSmall(BnMulSmall(bnPrev, 125), 100)
    IN  IF BnLess(bnScaled, bnLow) THEN bnLow
        ELSE IF BnLess(bnHigh, bnScaled) THEN bnHigh
        ELSE bnScaled

CappedOfCall ==
    LET recentSpacings == RecentSpacings(vChain, nHeight, 60)
    IN  CappedTarget(SetCompact(TipBlock.nBits),
            AdjustmentSpacing(recentSpacings,
                PossibleAttack(recentSpacings, 60),
                RecentLargeAdjustment(vChain, nHeight)),
            SelectedLimits, 60, powLimit)

\* the 256-bit target bn differs from the tip's 256-bit target by less than 1%
WithinOnePercent(bn) ==
    LET bnPrev == SetCompact(TipBlock.nBits)
    IN  /\ BnLess(BnMulSmall(bnPrev, 99), BnMulSmall(bn, 100))
        /\ BnLess(BnMulSmall(bn, 100), BnMulSmall(bnPrev, 101))

\* C22: the minimum-meaningful-adjustment rule replaces the capped target,
\* by exactly prev*97/100 or prev*103/100 clamped to powLimit, only when no
\* anomaly flag is set, the chosen spacing is below 0.6 or above 1.4 target
\* spacings and the capped 256-bit target is within 1% of the tip's 256-bit
\* target; a capped target 1% or more away from the tip's is never overridden.
C22_MinimumAdjustment ==
    (AdjustedCall /\ nBitsResult # GetCompact(CappedOfCall)) =>
        LET recentSpacings == RecentSpacings(vChain, nHeight, 60)
            chosen == ShortTermAverage(recentSpacings)
            bnPrev == SetCompact(TipBlock.nBits)
            bnForced == IF chosen < 60
                        THEN BnDivSmall(BnMulSmall(bnPrev, 97), 100)
                        ELSE BnDivSmall(BnMulSmall(bnPrev, 103), 100)
        IN  /\ ~PossibleAttack(recentSpacings, 60)
            /\ ~RecentLargeAdjustment(vChain, nHeight)
            /\ chosen * 10 < 60 * 6 \/ chosen * 10 > 60 * 14
            /\ WithinOnePercent(CappedOfCall)
            /\ nBitsResult = GetCompact(BnMin(bnForced, powLimit))


\* C23: for every tip with 145364 <= height < 145464 the legacy path returns
\* the compact encoding of powLimit, and at height 145364, where the
\* per-block retarget interval of 1 also applies, the frozen window decides.
C23_LegacyFreeze ==
    (Evaluated /\ nHeight >= 145364 /\ nHeight < 145464) =>
        /\ nBitsResult = GetCompact(legacyParams.powLimit)
        /\ nHeight = 145364 => LegacyInterval = 1

\* a tip at 145364 mined below the limit: the interval is 1, a retarget over
\* the last block would not give the limit, and the call returns the limit
C23_Witness ==
    /\ Evaluated
    /\ nHeight = 145364
    /\ LegacyInterval = 1
    /\ (nHeight + 1) % LegacyInterval = 0
    /\ ~DigishieldException
    /\ TipBlock.nBits = 486604799
    /\ CalculateDogecoinNextWorkRequired(TipBlock.nBits, TipBlock.nTime,
            Ancestor(vChain, 1).nTime, legacyParams) # PowLimitCompact
    /\ nBitsResult = PowLimitCompact


\* GetConsensus has been called on the root of a network's tree
ConsensusLookedUp ==
    /\ paramsOp = "GetConsensus"
    /\ tree = [root |-> pConsensusRoot, nodes |-> ConsensusNodes]

\* the node returned is the base parameter set
BaseSetReturned ==
    /\ pResult = "consensus"
    /\ ~tree.nodes[pResult].fDigishieldDifficultyCalculation
    /\ tree.nodes[pResult].nPowTargetTimespan = 1200

\* C24 as stated: for every target height H representable as an unsigned
\* 32-bit integer, GetConsensus(H) on the root of a network's parameter tree
\* returns the base parameter set (fDigishieldDifficultyCalculation false,
\* nPowTargetTimespan 1200), never the DigiShield, min-difficulty or AuxPoW
\* set.
C24_DigishieldDormant == ConsensusLookedUp => BaseSetReturned

\* C24 amended: GetConsensus(H) on the root of a network's parameter tree
\* returns the base parameter set for every target height H below
\* 0xFFFFFFFF; for H = 0xFFFFFFFF it returns the root, the DigiShield set.
C24_DormantBelowMax ==
    ConsensusLookedUp =>
        IF nTargetHeight = UINT32_MAX
        THEN /\ pResult = "digishieldConsensus"
             /\ tree.nodes[pResult].fDigishieldDifficultyCalculation
             /\ tree.nodes[pResult].nPowTargetTimespan = 60
        ELSE BaseSetReturned

\* the lookup of the greatest height below 0xFFFFFFFF returns the base set
C24_Witness ==
    /\ ConsensusLookedUp
    /\ nTargetHeight = <<65535, 65534>>
    /\ U32Less(nTargetHeight, tree.nodes[tree.root].nHeightEffective)
    /\ BaseSetReturned


\* the last call reached the lookback: no exception, outside the frozen
\* window, on the interval
LookbackReached ==
    /\ Evaluated
    /\ ~DigishieldException
    /\ ~(nHeight >= 145364 /\ nHeight < 145464)
    /\ (nHeight + 1) % LegacyInterval = 0

\* nHeightFirst of the last call
HeightFirst == nHeight - BlocksToGoBack(nHeight, LegacyInterval)

\* C25 as stated: in the legacy path the lookback assertions never fail: for
\* every tip height >= 0 and every interval >= 1 with
\* (height + 1) mod interval = 0, nHeightFirst = height - blockstogoback is
\* >= 0, and it is 0 exactly when height + 1 = interval.
C25_LookbackInRange ==
    LookbackReached =>
        /\ nBitsResult # Aborted
        /\ HeightFirst >= 0
        /\ HeightFirst = 0 <=> nHeight + 1 = LegacyInterval

\* C25 amended: the lookback assertions never fail, nHeightFirst is >= 0
\* and its block is an ancestor of the tip, and it is 0 exactly when
\* height + 1 = interval or, with an interval of 1, when the tip is at
\* height 1.
C25_LookbackNeverFails ==
    LookbackReached =>
        /\ nBitsResult # Aborted
        /\ HeightFirst >= 0
        /\ BlocksToGoBack(nHeight, LegacyInterval) < Len(vChain)
        /\ HeightFirst = 0 <=> \/ nHeight + 1 = LegacyInterval
                               \/ LegacyInterval = 1 /\ nHeight = 1

\* the first retarget after genesis: tip 19, interval 20, lookback to block 0
C25_Witness ==
    /\ LookbackReached
    /\ nHeight = 19
    /\ LegacyInterval = 20
    /\ BlocksToGoBack(nHeight, LegacyInterval) = 19
    /\ HeightFirst = 0
    /\ nBitsResult # Aborted


\* C26: the adaptive path never divides by zero: whenever a call reaches the
\* averaging step the loop has pushed at least one spacing (the fallback for
\* an empty recentSpacings is not taken), shortTermCount is at least 1, and
\* averageSpacing and shortTermAverage are at least 1 because every spacing
\* is clamped to at least MIN_BLOCK_TIME = 1.
C26_NoDivisionByZero ==
    AdjustedCall =>
        LET recentSpacings == RecentSpacings(vChain, nHeight, 60)
        IN  /\ SpacingCount(nHeight) >= 1
            /\ Len(recentSpacings) = SpacingCount(nHeight)
            /\ Min(3, Len(recentSpacings)) >= 1
            /\ \A i \in 1..Len(recentSpacings) : recentSpacings[i] >= 1
            /\ AverageSpacing(recentSpacings) >= 1
            /\ ShortTermAverage(recentSpacings) >= 1

\* a tip whose time is 30 seconds before its predecessor's: the spacing is
\* clamped to 1 and the averages are 50 and 34
C26_Witness ==
    /\ AdjustedCall
    /\ TipBlock.nTime - Ancestor(vChain, 1).nTime = -30
    /\ RecentSpacings(vChain, nHeight, 60)[1] = 1
    /\ AverageSpacing(RecentSpacings(vChain, nHeight, 60)) = 50
    /\ ShortTermAverage(RecentSpacings(vChain, nHeight, 60)) = 34

====
